---- MODULE Spec2Model ----
(***************************************************************************)
(* Numerical quadrature of src/lab1/calc_methods_integral.py:              *)
(* RectangleMethod (left, right, mid, random), TrapezoidalMethod and       *)
(* SimpsonMethod, each with one operation integrate(a, b, n, f).           *)
(*                                                                         *)
(* Python floats are modelled by the rational numbers they approximate, a  *)
(* pair <<p, q>> in lowest terms with q > 0: every statement below about   *)
(* the value of a result is a statement in exact arithmetic, which the     *)
(* binary64 results of the code follow up to rounding error.               *)
(*                                                                         *)
(* Every call is a frame of a caller thread; the loop of integrate is      *)
(* taken one iteration at a time, so that the calls of several threads     *)
(* interleave between iterations.                                          *)
(***************************************************************************)
EXTENDS Integers, Sequences, FiniteSets

VARIABLES debug, objs, frame

vars == <<debug, objs, frame>>

----------------------------------------------------------------------------
(* Bounds of the model *)

MaxAB == 2
MaxN == 4
RandDen == 2
NumThreads == 2

ValidModes == {"left", "right", "mid", "random"}
AnyModes == ValidModes \cup {"invalid"}

Threads == 1..NumThreads
SeqThreads == {1}

ABRange == (0 - 1)..MaxAB
NRange == (0 - MaxN)..MaxN

\* Integrands, as coefficient sequences c[1] + c[2]*x + c[3]*x^2 + ...
Fns ==
  << <<1, 2>>, <<0, 0, 1>>, <<0, 0, 0, 1>>, <<1, 0 - 1, 0, 1>>, <<0, 0, 0, 0, 1>> >>

FnIds == 1..Len(Fns)

\* Inputs of the concurrent specification
ConcAB == {<<0, 2>>, <<2, 0>>}
ConcModes == {"left"}
ConcN == {2}
ConcFns == {2}

----------------------------------------------------------------------------
(* float arithmetic, as exact rationals *)

Abs(k) == IF k < 0 THEN 0 - k ELSE k

RECURSIVE GCD(_, _)
GCD(x, y) == IF y = 0 THEN x ELSE GCD(y, x % y)

\* p / q in lowest terms, for q # 0
Norm(p, q) ==
  LET g == GCD(Abs(p), Abs(q))
      s == IF q < 0 THEN 0 - 1 ELSE 1
  IN  <<(s * p) \div g, (s * q) \div g>>

RInt(k) == <<k, 1>>

\* the least common denominator of x and y
Lcd(x, y) == (x[2] \div GCD(x[2], y[2])) * y[2]

RAdd(x, y) ==
  LET l == Lcd(x, y)
  IN  Norm(x[1] * (l \div x[2]) + y[1] * (l \div y[2]), l)

RNeg(x) == <<0 - x[1], x[2]>>
RSub(x, y) == RAdd(x, RNeg(y))

RMul(x, y) ==
  LET g == GCD(Abs(x[1]), y[2])
      h == GCD(Abs(y[1]), x[2])
  IN  Norm((x[1] \div g) * (y[1] \div h), (x[2] \div h) * (y[2] \div g))

\* x / k; no value (Unset) for k = 0
RDivInt(x, k) ==
  LET g == GCD(Abs(x[1]), Abs(k))
  IN  IF k = 0 THEN <<0, 0>> ELSE Norm(x[1] \div g, x[2] * (k \div g))

RLe(x, y) ==
  LET l == Lcd(x, y)
  IN  x[1] * (l \div x[2]) <= y[1] * (l \div y[2])

Half == <<1, 2>>
Unset == <<0, 0>>

\* f(x) for the integrand with index fid (Horner's rule)
RECURSIVE Horner(_, _, _)
Horner(c, k, x) ==
  IF k > Len(c) THEN RInt(0)
  ELSE RAdd(RInt(c[k]), RMul(x, Horner(c, k + 1, x)))

Apply(fid, x) == Horner(Fns[fid], 1, x)

----------------------------------------------------------------------------
(* Objects *)


NoObj == [cls |-> "none", mode |-> "none"]

IdleFrame ==
  [pc |-> "idle", op |-> "none", self |-> 0, a |-> 0, b |-> 0, n |-> 0, f |-> 0,
   i |-> 0, dx |-> Unset, total |-> Unset, evals |-> 0, result |-> Unset,
   err |-> "none"]

Init ==
  /\ debug \in BOOLEAN
  /\ objs = [o \in Threads |-> NoObj]
  /\ frame = [t \in Threads |-> IdleFrame]

\* assert mode in ('left', 'right', 'mid', 'random'): checked only when the
\* interpreter runs with __debug__ (without -O)
AssertFails(m) == debug /\ m \notin ValidModes

ConstructRectangle(t, m) ==
  /\ frame[t].pc = "idle"
  /\ objs[t] = NoObj
  /\ IF AssertFails(m)
     THEN /\ frame' = [frame EXCEPT ![t] =
                 [IdleFrame EXCEPT !.pc = "raised", !.op = "construct",
                                   !.err = "AssertionError"]]
          /\ UNCHANGED objs
     ELSE /\ objs' = [objs EXCEPT ![t] = [cls |-> "RectangleMethod", mode |-> m]]
          /\ UNCHANGED frame
  /\ UNCHANGED debug

ConstructTrapezoidal(t) ==
  /\ frame[t].pc = "idle"
  /\ objs[t] = NoObj
  /\ objs' = [objs EXCEPT ![t] = [cls |-> "TrapezoidalMethod", mode |-> "none"]]
  /\ UNCHANGED <<debug, frame>>

ConstructSimpson(t) ==
  /\ frame[t].pc = "idle"
  /\ objs[t] = NoObj
  /\ objs' = [objs EXCEPT ![t] = [cls |-> "SimpsonMethod", mode |-> "none"]]
  /\ UNCHANGED <<debug, frame>>

----------------------------------------------------------------------------
(* integrate: entry *)

\* A faulty variant: the loop runs once more, for i in range(lo, n + 1)
InRangeInclusive(k, n0) == k <= n0

\* for i in range(lo, n): the loop goes on while i < n
InRange(k, n0) == k < n0

\* A faulty variant: no fault for n = 0, the quotient is taken as it comes
DivFailsNegative(n0) == n0 < 0

\* A faulty variant: every n <= 0 is rejected
DivFailsNonPositive(n0) == n0 <= 0

\* (b - a) / n raises ZeroDivisionError for n = 0
DivFails(n0) == n0 = 0

Dx(a0, b0, n0) == RDivInt(RInt(b0 - a0), n0)

Called(o, a0, b0, n0, f0) ==
  [IdleFrame EXCEPT !.op = "integrate", !.self = o, !.a = a0, !.b = b0,
                    !.n = n0, !.f = f0]

Raise(fr, e) == [fr EXCEPT !.pc = "raised", !.err = e]

RectIntegrate(t, o, a0, b0, n0, f0) ==
  /\ frame[t].pc = "idle"
  /\ objs[o].cls = "RectangleMethod"
  /\ LET fr == Called(o, a0, b0, n0, f0)
     IN  frame' = [frame EXCEPT ![t] =
           IF DivFails(n0) THEN Raise(fr, "ZeroDivisionError")
           ELSE [fr EXCEPT !.pc = "rect_loop", !.dx = Dx(a0, b0, n0),
                           !.total = RInt(0), !.i = 0]]
  /\ UNCHANGED <<debug, objs>>

\* A faulty variant: the end values are not halved
TrapStartWhole(fid, a0, b0) == RAdd(Apply(fid, RInt(a0)), Apply(fid, RInt(b0)))

\* 0.5 * (f(a) + f(b))
TrapStart(fid, a0, b0) ==
  RMul(Half, RAdd(Apply(fid, RInt(a0)), Apply(fid, RInt(b0))))

TrapIntegrate(t, o, a0, b0, n0, f0) ==
  /\ frame[t].pc = "idle"
  /\ objs[o].cls = "TrapezoidalMethod"
  /\ LET fr == Called(o, a0, b0, n0, f0)
     IN  frame' = [frame EXCEPT ![t] =
           IF DivFails(n0) THEN Raise(fr, "ZeroDivisionError")
           ELSE [fr EXCEPT !.pc = "trap_loop", !.dx = Dx(a0, b0, n0),
                           !.total = TrapStart(f0, a0, b0), !.evals = 2,
                           !.i = 1]]
  /\ UNCHANGED <<debug, objs>>

\* A faulty variant: the parity test misses the negative odd numbers
OddNPositive(n0) == n0 > 0 /\ n0 % 2 # 0

\* if n % 2 != 0: raise ValueError
OddN(n0) == n0 % 2 # 0

\* f(a) + f(b)
SimpStart(fid, a0, b0) == RAdd(Apply(fid, RInt(a0)), Apply(fid, RInt(b0)))

SimpIntegrate(t, o, a0, b0, n0, f0) ==
  /\ frame[t].pc = "idle"
  /\ objs[o].cls = "SimpsonMethod"
  /\ LET fr == Called(o, a0, b0, n0, f0)
     IN  frame' = [frame EXCEPT ![t] =
           IF OddN(n0) THEN Raise(fr, "ValueError")
           ELSE IF DivFails(n0) THEN Raise(fr, "ZeroDivisionError")
           ELSE [fr EXCEPT !.pc = "simp_loop", !.dx = Dx(a0, b0, n0),
                           !.total = SimpStart(f0, a0, b0), !.evals = 2,
                           !.i = 1]]
  /\ UNCHANGED <<debug, objs>>

----------------------------------------------------------------------------
(* integrate: the accumulation loop, one iteration per step *)

\* np.random.uniform(x0, x1) = x0 + (x1 - x0) * u with u in [0, 1); u = k / RandDen
Uniform(x0, x1, k) == RAdd(x0, RDivInt(RMul(RSub(x1, x0), RInt(k)), RandDen))

\* A faulty variant: mode mid takes the left end
RectPointMidAsLeft(m, x0, x1, k) ==
  IF m = "left" THEN x0
  ELSE IF m = "right" THEN x1
  ELSE IF m = "mid" THEN x0
  ELSE Uniform(x0, x1, k)

\* A faulty variant: mode left takes the right end
RectPointLeftAsRight(m, x0, x1, k) ==
  IF m = "left" THEN x1
  ELSE IF m = "right" THEN x1
  ELSE IF m = "mid" THEN RDivInt(RAdd(x0, x1), 2)
  ELSE Uniform(x0, x1, k)

\* the evaluation point xi of the subinterval from x0 to x1
RectPoint(m, x0, x1, k) ==
  IF m = "left" THEN x0
  ELSE IF m = "right" THEN x1
  ELSE IF m = "mid" THEN RDivInt(RAdd(x0, x1), 2)
  ELSE Uniform(x0, x1, k)

\* a + i * dx
Node(a0, k, d) == RAdd(RInt(a0), RMul(RInt(k), d))

\* A faulty variant: total is an attribute of the object, shared by the calls on it
AccumulateShared(t, term) ==
  LET others == {u \in Threads \ {t} : /\ frame[u].pc = frame[t].pc
                                        /\ frame[u].self = frame[t].self}
  IN  IF others = {} THEN RAdd(frame[t].total, term)
      ELSE RAdd(frame[CHOOSE u \in others : TRUE].total, term)

\* total += term, on the local variable of the call
Accumulate(t, term) == RAdd(frame[t].total, term)

RectIter(t, k) ==
  LET fr == frame[t]
      x0 == Node(fr.a, fr.i, fr.dx)
      x1 == RAdd(x0, fr.dx)
      xi == RectPoint(objs[fr.self].mode, x0, x1, k)
  IN  /\ fr.pc = "rect_loop"
      /\ InRange(fr.i, fr.n)
      /\ frame' = [frame EXCEPT ![t] =
            [fr EXCEPT !.total = Accumulate(t, RMul(Apply(fr.f, xi), fr.dx)),
                       !.evals = fr.evals + 1, !.i = fr.i + 1]]
      /\ UNCHANGED <<debug, objs>>

RectReturn(t) ==
  LET fr == frame[t]
  IN  /\ fr.pc = "rect_loop"
      /\ ~InRange(fr.i, fr.n)
      /\ frame' = [frame EXCEPT ![t] =
            [fr EXCEPT !.pc = "returned", !.result = fr.total]]
      /\ UNCHANGED <<debug, objs>>

TrapIter(t) ==
  LET fr == frame[t]
  IN  /\ fr.pc = "trap_loop"
      /\ InRange(fr.i, fr.n)
      /\ frame' = [frame EXCEPT ![t] =
            [fr EXCEPT !.total = Accumulate(t, Apply(fr.f, Node(fr.a, fr.i, fr.dx))),
                       !.evals = fr.evals + 1, !.i = fr.i + 1]]
      /\ UNCHANGED <<debug, objs>>

TrapReturn(t) ==
  LET fr == frame[t]
  IN  /\ fr.pc = "trap_loop"
      /\ ~InRange(fr.i, fr.n)
      /\ frame' = [frame EXCEPT ![t] =
            [fr EXCEPT !.pc = "returned", !.result = RMul(fr.total, fr.dx)]]
      /\ UNCHANGED <<debug, objs>>

\* A faulty variant: the weights 4 and 2 are swapped
CoefSwapped(k) == IF k % 2 # 0 THEN 2 ELSE 4

\* coef = 4 if i % 2 != 0 else 2
Coef(k) == IF k % 2 # 0 THEN 4 ELSE 2

SimpIter(t) ==
  LET fr == frame[t]
      term == RMul(RInt(Coef(fr.i)), Apply(fr.f, Node(fr.a, fr.i, fr.dx)))
  IN  /\ fr.pc = "simp_loop"
      /\ InRange(fr.i, fr.n)
      /\ frame' = [frame EXCEPT ![t] =
            [fr EXCEPT !.total = Accumulate(t, term),
                       !.evals = fr.evals + 1, !.i = fr.i + 1]]
      /\ UNCHANGED <<debug, objs>>

SimpReturn(t) ==
  LET fr == frame[t]
  IN  /\ fr.pc = "simp_loop"
      /\ ~InRange(fr.i, fr.n)
      /\ frame' = [frame EXCEPT ![t] =
            [fr EXCEPT !.pc = "returned",
                       !.result = RDivInt(RMul(fr.total, fr.dx), 3)]]
      /\ UNCHANGED <<debug, objs>>

\* the caller takes the returned value or the exception; the frame is gone
Finish(t) ==
  /\ frame[t].pc \in {"returned", "raised"}
  /\ frame' = [frame EXCEPT ![t] = IdleFrame]
  /\ UNCHANGED <<debug, objs>>

----------------------------------------------------------------------------
(* Specifications *)

Construct(t, MS) ==
  \/ \E m \in MS : ConstructRectangle(t, m)
  \/ ConstructTrapezoidal(t)
  \/ ConstructSimpson(t)

\* a caller that is in no call calls integrate on an object that exists
Call(t, AB, NS, FS) ==
  /\ frame[t].pc = "idle"
  /\ \E o \in {p \in Threads : objs[p] # NoObj} :
       \E ab \in AB, n0 \in NS, f0 \in FS :
         \/ RectIntegrate(t, o, ab[1], ab[2], n0, f0)
         \/ TrapIntegrate(t, o, ab[1], ab[2], n0, f0)
         \/ SimpIntegrate(t, o, ab[1], ab[2], n0, f0)

Step(t) ==
  \/ frame[t].pc = "rect_loop" /\ \E k \in 0..(RandDen - 1) : RectIter(t, k)
  \/ RectReturn(t)
  \/ TrapIter(t)
  \/ TrapReturn(t)
  \/ SimpIter(t)
  \/ SimpReturn(t)
  \/ Finish(t)

\* one caller: the code as written, synchronous and single-threaded
Next ==
  \E t \in SeqThreads :
    Construct(t, AnyModes) \/ Call(t, ABRange \X ABRange, NRange, FnIds) \/ Step(t)

Spec == Init /\ [][Next]_vars

\* several callers, their loop iterations interleaved
NextConc ==
  \E t \in Threads :
    Construct(t, ConcModes) \/ Call(t, ConcAB, ConcN, ConcFns) \/ Step(t)

\* the interpreter runs without -O
InitConc == Init /\ debug

SpecConc == InitConc /\ [][NextConc]_vars

----------------------------------------------------------------------------
(* integrate as a function of its arguments: the value one call computes
   when it runs alone, accumulated in the order of the loop *)

RECURSIVE RectLoop(_, _, _, _, _, _, _)
RectLoop(m, a0, d, n0, f0, k, tot) ==
  IF InRange(k, n0)
  THEN LET x0 == Node(a0, k, d)
           xi == RectPoint(m, x0, RAdd(x0, d), 0)
       IN  RectLoop(m, a0, d, n0, f0, k + 1, RAdd(tot, RMul(Apply(f0, xi), d)))
  ELSE tot

RECURSIVE TrapLoop(_, _, _, _, _, _)
TrapLoop(a0, d, n0, f0, k, tot) ==
  IF InRange(k, n0)
  THEN TrapLoop(a0, d, n0, f0, k + 1, RAdd(tot, Apply(f0, Node(a0, k, d))))
  ELSE tot

RECURSIVE SimpLoop(_, _, _, _, _, _)
SimpLoop(a0, d, n0, f0, k, tot) ==
  IF InRange(k, n0)
  THEN SimpLoop(a0, d, n0, f0, k + 1,
                RAdd(tot, RMul(RInt(Coef(k)), Apply(f0, Node(a0, k, d)))))
  ELSE tot

\* the result of obj.integrate(a0, b0, n0, f0), for n0 # 0 and a mode that is
\* not random
Integrate(obj, a0, b0, n0, f0) ==
  LET d == Dx(a0, b0, n0)
  IN  IF obj.cls = "RectangleMethod"
      THEN RectLoop(obj.mode, a0, d, n0, f0, 0, RInt(0))
      ELSE IF obj.cls = "TrapezoidalMethod"
      THEN RMul(TrapLoop(a0, d, n0, f0, 1, TrapStart(f0, a0, b0)), d)
      ELSE RDivInt(RMul(SimpLoop(a0, d, n0, f0, 1, SimpStart(f0, a0, b0)), d), 3)

----------------------------------------------------------------------------
(* What the claims speak of *)

Returned(t) == frame[t].op = "integrate" /\ frame[t].pc = "returned"
Raised(t) == frame[t].op = "integrate" /\ frame[t].pc = "raised"
InCall(t) == frame[t].op = "integrate"
Receiver(t) == objs[frame[t].self]
IsRect(t) == Receiver(t).cls = "RectangleMethod"
IsTrap(t) == Receiver(t).cls = "TrapezoidalMethod"
IsSimp(t) == Receiver(t).cls = "SimpsonMethod"

\* a method that draws no random point
NonRandom(obj) ==
  \/ obj.cls \in {"TrapezoidalMethod", "SimpsonMethod"}
  \/ obj.cls = "RectangleMethod" /\ obj.mode \in {"left", "right", "mid"}

Degree(fid) == Len(Fns[fid]) - 1

RECURSIVE Power(_, _)
Power(x, k) == IF k = 0 THEN RInt(1) ELSE RMul(x, Power(x, k - 1))

\* the antiderivative sum of c[k] * x^k / k of the integrand, at x
RECURSIVE Primitive(_, _, _)
Primitive(c, k, x) ==
  IF k > Len(c) THEN RInt(0)
  ELSE RAdd(RDivInt(RMul(RInt(c[k]), Power(x, k)), k), Primitive(c, k + 1, x))

\* the analytic integral of the integrand over [a0, b0]
TrueIntegral(fid, a0, b0) ==
  RSub(Primitive(Fns[fid], 1, RInt(b0)), Primitive(Fns[fid], 1, RInt(a0)))

\* the integrand is non-decreasing on [a0, b0]: its derivative has no negative
\* coefficient, and either only even powers or a0 >= 0
Increasing(fid, a0, b0) ==
  LET c == Fns[fid]
  IN  /\ \A k \in 2..Len(c) : c[k] >= 0
      /\ \/ a0 >= 0
         \/ \A k \in 2..Len(c) : k % 2 = 1 => c[k] = 0

----------------------------------------------------------------------------
(* Claims *)

\* the method whose sum over [b, a] mirrors that of obj over [a, b]: the left
\* nodes of one direction are the right nodes of the other
Mirror(obj) ==
  IF obj.mode = "left" THEN [obj EXCEPT !.mode = "right"]
  ELSE IF obj.mode = "right" THEN [obj EXCEPT !.mode = "left"]
  ELSE obj

\* C1 as stated: for every non-random method and every n >= 1 (even for
\* Simpson), integrate(a, b, n, f) = -integrate(b, a, n, f) for the same method.
C1_ReversedNegatesSameMode ==
  \A t \in Threads :
    (Returned(t) /\ frame[t].n >= 1 /\ NonRandom(Receiver(t))) =>
      frame[t].result =
        RNeg(Integrate(Receiver(t), frame[t].b, frame[t].a, frame[t].n, frame[t].f))

\* C1 amended: reversing the bounds negates the result for mode mid, for
\* TrapezoidalMethod and for SimpsonMethod; for modes left and right it
\* negates the result of the other of the two modes.
C1_ReversedNegatesMirror ==
  \A t \in Threads :
    (Returned(t) /\ frame[t].n >= 1 /\ NonRandom(Receiver(t))) =>
      frame[t].result =
        RNeg(Integrate(Mirror(Receiver(t)), frame[t].b, frame[t].a, frame[t].n,
                       frame[t].f))

C1_Witness ==
  \E t \in Threads :
    /\ Returned(t) /\ IsRect(t) /\ Receiver(t).mode = "left"
    /\ frame[t].a > frame[t].b /\ frame[t].n >= 2
    /\ frame[t].result # RInt(0)
    /\ frame[t].result =
         RNeg(Integrate([cls |-> "RectangleMethod", mode |-> "right"],
                        frame[t].b, frame[t].a, frame[t].n, frame[t].f))

\* C2: SimpsonMethod.integrate with an odd n raises ValueError before dx is
\* computed and before f is evaluated, and returns nothing; with an even
\* n >= 2 it raises nothing and what it returns is a value.
C2_SimpsonOddRaises ==
  \A t \in Threads :
    (InCall(t) /\ IsSimp(t)) =>
      /\ frame[t].n % 2 = 1 =>
           /\ frame[t].pc = "raised" /\ frame[t].err = "ValueError"
           /\ frame[t].dx = Unset /\ frame[t].evals = 0
           /\ frame[t].result = Unset
      /\ (frame[t].n % 2 = 0 /\ frame[t].n >= 2) =>
           /\ frame[t].pc # "raised" /\ frame[t].err = "none"
           /\ frame[t].pc = "returned" => frame[t].result # Unset

C2_Witness ==
  \E t \in Threads :
    /\ Raised(t) /\ IsSimp(t) /\ frame[t].n = 3
    /\ frame[t].err = "ValueError" /\ frame[t].evals = 0

\* C3: constructing a RectangleMethod with a mode outside
\* {left, right, mid, random} fails with the error class of Simpson's odd-n
\* failure (ValueError), and no RectangleMethod with such a mode exists.
C3_InvalidModeIsInvalidArgument ==
  /\ \A t \in Threads :
       (frame[t].op = "construct" /\ frame[t].pc = "raised") =>
         frame[t].err = "ValueError"
  /\ \A o \in Threads :
       objs[o].cls = "RectangleMethod" => objs[o].mode \in ValidModes

\* C4: for n = 0 every method raises ZeroDivisionError in dx = (b - a) / n:
\* no dx, no evaluation of f, no result.
C4_ZeroNDivisionFault ==
  \A t \in Threads :
    (InCall(t) /\ frame[t].n = 0) =>
      /\ frame[t].pc = "raised" /\ frame[t].err = "ZeroDivisionError"
      /\ frame[t].dx = Unset /\ frame[t].evals = 0 /\ frame[t].result = Unset

C4_Witness ==
  \E t \in Threads :
    /\ Raised(t) /\ IsSimp(t) /\ frame[t].n = 0
    /\ frame[t].err = "ZeroDivisionError"

\* C5: SimpsonMethod.integrate returns the analytic integral of every
\* polynomial of degree <= 3, for all bounds and every even n >= 2.
C5_SimpsonExactCubic ==
  \A t \in Threads :
    (Returned(t) /\ IsSimp(t) /\ frame[t].n >= 2 /\ Degree(frame[t].f) <= 3) =>
      frame[t].result = TrueIntegral(frame[t].f, frame[t].a, frame[t].b)

\* f(x) = x^3, a = 0, b = 1, n = 2 gives 0.25
C5_Witness ==
  \E t \in Threads :
    /\ Returned(t) /\ IsSimp(t) /\ Fns[frame[t].f] = <<0, 0, 0, 1>>
    /\ frame[t].a = 0 /\ frame[t].b = 1 /\ frame[t].n = 2
    /\ frame[t].result = <<1, 4>>

\* C6: TrapezoidalMethod.integrate returns the analytic integral of every
\* linear function, for all bounds and every n >= 1.
C6_TrapezoidalExactLinear ==
  \A t \in Threads :
    (Returned(t) /\ IsTrap(t) /\ frame[t].n >= 1 /\ Degree(frame[t].f) <= 1) =>
      frame[t].result = TrueIntegral(frame[t].f, frame[t].a, frame[t].b)

\* f(x) = 2x + 1, a = 0, b = 2, n = 4 gives 6.0
C6_Witness ==
  \E t \in Threads :
    /\ Returned(t) /\ IsTrap(t) /\ Fns[frame[t].f] = <<1, 2>>
    /\ frame[t].a = 0 /\ frame[t].b = 2 /\ frame[t].n = 4
    /\ frame[t].result = <<6, 1>>

\* C7: for an increasing integrand, a <= b and n >= 1, the left sum is at most
\* the analytic integral and the right sum is at least it.
C7_LeftRightBracket ==
  \A t \in Threads :
    (/\ Returned(t) /\ IsRect(t) /\ frame[t].n >= 1 /\ frame[t].a <= frame[t].b
     /\ Increasing(frame[t].f, frame[t].a, frame[t].b)) =>
      LET true == TrueIntegral(frame[t].f, frame[t].a, frame[t].b)
      IN  /\ Receiver(t).mode = "left" => RLe(frame[t].result, true)
          /\ Receiver(t).mode = "right" => RLe(true, frame[t].result)

C7_Witness ==
  \E t \in Threads :
    /\ Returned(t) /\ IsRect(t) /\ Receiver(t).mode = "left"
    /\ frame[t].n >= 2 /\ frame[t].a < frame[t].b
    /\ Increasing(frame[t].f, frame[t].a, frame[t].b)
    /\ frame[t].result # TrueIntegral(frame[t].f, frame[t].a, frame[t].b)
    /\ RLe(frame[t].result, TrueIntegral(frame[t].f, frame[t].a, frame[t].b))

\* C8: with the iterations of concurrent calls interleaved, on the same or on
\* different objects, every call of a non-random method returns the value it
\* returns when it runs alone (so a repeated call returns the same value), and
\* no step changes an object that exists: its mode stays as constructed.
C8_ResultAsAlone ==
  \A t \in Threads :
    (Returned(t) /\ NonRandom(Receiver(t))) =>
      frame[t].result =
        Integrate(Receiver(t), frame[t].a, frame[t].b, frame[t].n, frame[t].f)

C8_ObjectsKept == \A o \in Threads : objs[o] # NoObj => objs'[o] = objs[o]

C8_CallsIndependent == [][C8_ObjectsKept]_vars /\ []C8_ResultAsAlone

\* two calls on the same object, both inside their loops, each one iteration in
C8_Witness ==
  \E t \in Threads, u \in Threads :
    /\ t # u /\ frame[t].self = frame[u].self
    /\ frame[t].pc = "rect_loop" /\ frame[u].pc = "rect_loop"
    /\ frame[t].i = 1 /\ frame[u].i = 1
    /\ frame[t].n = 2 /\ frame[u].n = 2
    /\ frame[t].a # frame[u].a

\* C9: in a call with n >= 1, f has been evaluated at most n + 1 times at
\* every point of the loop; when the call returns it has been evaluated n
\* times by RectangleMethod and n + 1 times by the other two.
C9_EvaluationCount ==
  \A t \in Threads :
    (InCall(t) /\ frame[t].n >= 1 /\ frame[t].pc # "raised") =>
      /\ frame[t].evals <= frame[t].n + 1
      /\ (Returned(t) /\ IsRect(t)) => frame[t].evals = frame[t].n
      /\ (Returned(t) /\ ~IsRect(t)) => frame[t].evals = frame[t].n + 1

C9_Witness ==
  \E t \in Threads :
    Returned(t) /\ IsSimp(t) /\ frame[t].n = 4 /\ frame[t].evals = 5

\* C10: a negative n is not rejected. RectangleMethod runs no iteration,
\* never evaluates f and returns 0.0; TrapezoidalMethod and SimpsonMethod
\* (n even) evaluate f at a and b only and return 0.5*(f(a)+f(b))*dx and
\* (f(a)+f(b))*dx/3 with dx = (b - a)/n.
C10_NegativeNAccepted ==
  \A t \in Threads :
    (InCall(t) /\ frame[t].n <= 0 - 1 /\ ~(IsSimp(t) /\ frame[t].n % 2 = 1)) =>
      LET fa == Apply(frame[t].f, RInt(frame[t].a))
          fb == Apply(frame[t].f, RInt(frame[t].b))
          d == RDivInt(RInt(frame[t].b - frame[t].a), frame[t].n)
      IN  /\ frame[t].pc # "raised" /\ frame[t].err = "none"
          /\ IsRect(t) =>
               /\ frame[t].evals = 0 /\ frame[t].i = 0
               /\ Returned(t) => frame[t].result = RInt(0)
          /\ IsTrap(t) =>
               /\ frame[t].evals = 2 /\ frame[t].i = 1
               /\ Returned(t) =>
                    frame[t].result = RMul(RMul(Half, RAdd(fa, fb)), d)
          /\ IsSimp(t) =>
               /\ frame[t].evals = 2 /\ frame[t].i = 1
               /\ Returned(t) =>
                    frame[t].result = RDivInt(RMul(RAdd(fa, fb), d), 3)

C10_Witness ==
  \E t \in Threads :
    /\ Returned(t) /\ IsTrap(t) /\ frame[t].n = 0 - 2
    /\ frame[t].evals = 2 /\ frame[t].result # RInt(0)

====
